---------------------------- MODULE Spec2Model ----------------------------
(***************************************************************************)
(* A model of pixels-android (src/src/lib.rs): the bouncing-box World      *)
(* (World::new, World::update, World::draw) and the winit event handler    *)
(* of run().                                                               *)
(***************************************************************************)
EXTENDS Integers, Sequences, FiniteSets, TLC

(* ----------------------------- constants ------------------------------ *)

WIDTH == 320

HEIGHT == 240

BOX_SIZE == 64

\* i16 arithmetic: the value a release build (no overflow checks) computes.
I16_MIN == -32768

I16_MAX == 32767

Wrap16(n) == ((n - I16_MIN) % 65536) + I16_MIN

\* `WIDTH as i16`, `HEIGHT as i16`: a truncating cast of the u32 constant.
AsI16(n) == Wrap16(n)

(* ------------------------------- state -------------------------------- *)

VARIABLES
    world,          \* the World of run(): box_x, box_y, velocity_x, velocity_y
    pixels,         \* Option<Pixels>: <<>> is None, <<p>> is Some(p)
    soft_keyboard,  \* the software-keyboard flag of run()
    control_flow,   \* *control_flow as the handler leaves it: "Poll" or "Exit"
    status,         \* the process: "running", "exited" or "panicked"
    event,          \* history: the event the handler was last called with
    calls,          \* history: the calls the last handler invocation made, in order
    ime_calls,      \* history: the argument of every show_soft_input call so far
    created,        \* history: how many Pixels::new calls succeeded
    presented,      \* history: the frame the last pixels.render() presented
    lifecycle,      \* history: the most recent lifecycle event ("none" at startup)
    exit_cause,     \* history: which branch set ControlFlow::Exit ("none" if none)
    error_logged,   \* history: error!("pixels.render() failed") was logged
    events,         \* number of events dispatched so far (bounded by MaxEvents)
    reach,          \* history: the smallest and largest box_x, box_y seen so far
    prev,           \* history: <<w>> once a single update was applied to w
    frame,          \* the RGBA8 buffer handed to World::draw, one entry per pixel
    drawn,          \* history: how many World::draw calls have acted on frame
    overflow_checks \* the build: TRUE if i16 overflow panics, FALSE if it wraps

worldVars == <<world, reach, prev>>

drawVars == <<frame, drawn, overflow_checks>>

loopVars ==
    <<pixels, soft_keyboard, control_flow, status, event, calls, ime_calls,
      created, presented, lifecycle, exit_cause, error_logged, events>>

vars == <<worldVars, loopVars, drawVars>>

(* ------------------------------- World -------------------------------- *)

World_new ==
    [box_x |-> 24, box_y |-> 16, velocity_x |-> 1, velocity_y |-> 1]

\* Variants of the reflection test: the far wall forgotten, `>=` for `>` at
\* the far wall, `<` for `<=` at the near wall.
Reflects_NoFarEdge(pos, limit) == pos <= 0

Reflects_Ge(pos, limit) ==
    IF pos <= 0 THEN TRUE ELSE Wrap16(pos + BOX_SIZE) >= AsI16(limit)

Reflects_Lt(pos, limit) ==
    IF pos < 0 THEN TRUE ELSE Wrap16(pos + BOX_SIZE) > AsI16(limit)

\* One axis of World::update: the reflection test on the position before the
\* move (`pos <= 0 || pos + BOX_SIZE > limit as i16`, short-circuit), the
\* `velocity *= -1`, then `pos += velocity`.
Reflects(pos, limit) ==
    IF pos <= 0 THEN TRUE ELSE Wrap16(pos + BOX_SIZE) > AsI16(limit)

\* Variant: `velocity = 0` for `velocity *= -1`: the box stops at the wall.
Bounce_Stops(vel, pos, limit) ==
    IF Reflects(pos, limit) THEN 0 ELSE vel

\* Variant: `velocity = -1` for `velocity *= -1`.
Bounce_SetNegative(vel, pos, limit) ==
    IF Reflects(pos, limit) THEN -1 ELSE vel

Bounce(vel, pos, limit) ==
    IF Reflects(pos, limit) THEN Wrap16(vel * (-1)) ELSE vel

Update(w) ==
    LET vx == Bounce(w.velocity_x, w.box_x, WIDTH)
        vy == Bounce(w.velocity_y, w.box_y, HEIGHT)
    IN  [box_x      |-> Wrap16(w.box_x + vx),
         box_y      |-> Wrap16(w.box_y + vy),
         velocity_x |-> vx,
         velocity_y |-> vy]

Min(a, b) == IF a <= b THEN a ELSE b

Max(a, b) == IF a >= b THEN a ELSE b

Reach0(w) ==
    [min_x |-> w.box_x, max_x |-> w.box_x, min_y |-> w.box_y, max_y |-> w.box_y]

ReachAfter(r, w) ==
    [min_x |-> Min(r.min_x, w.box_x), max_x |-> Max(r.max_x, w.box_x),
     min_y |-> Min(r.min_y, w.box_y), max_y |-> Max(r.max_y, w.box_y)]

(* ----------------------- run(): the event handler ---------------------- *)

\* The locals of run() before event_loop.run (lib.rs:108-111) and the loop's
\* bookkeeping before the first event.
LoopStart ==
    /\ pixels = <<>>
    /\ soft_keyboard = FALSE
    /\ control_flow = "Poll"
    /\ status = "running"
    /\ event = [kind |-> "none"]
    /\ calls = <<>>
    /\ ime_calls = <<>>
    /\ created = 0
    /\ presented = <<>>
    /\ lifecycle = "none"
    /\ exit_cause = "none"
    /\ error_logged = FALSE
    /\ events = 0

\* The same values, for the specifications in which no event is dispatched.
LoopIdle == LoopStart

\* No stand-alone buffer: in run() the frame belongs to the surface.
DrawIdle ==
    /\ frame = <<>>
    /\ drawn = 0
    /\ overflow_checks = FALSE

MaxEvents == 6

TouchPhases == {"Started", "Moved", "Ended", "Cancelled"}

\* What show_soft_input can do: return the platform's answer, or panic in
\* one of its unwrap()s.
ShowResults == {"true", "false", "panic"}

\* The frame World::draw leaves in a surface: draw overwrites every pixel
\* from the World alone (see Draw below), so here a frame is named by the
\* World it was drawn from; <<>> is the frame of a surface never drawn to.
FrameOf(w) == <<w>>

\* Pixels::new(WIDTH, HEIGHT, surface_texture): a fresh surface.
Pixels_new(n) == [id |-> n, frame |-> <<>>]

\* event_loop.run calls the handler for each event until the handler leaves
\* ControlFlow::Exit; every call starts with control_flow.set_poll().
Dispatching ==
    /\ status = "running"
    /\ control_flow = "Poll"
    /\ events < MaxEvents

Handled(e) ==
    /\ event' = e
    /\ events' = events + 1

\* Variant: Resumed also starts the World over (`world = World::new()`).
Resumed_ResetsWorld(new_ok) ==
    /\ Dispatching
    /\ Handled([kind |-> "Resumed"])
    /\ lifecycle' = "Resumed"
    /\ IF new_ok
       THEN /\ pixels' = <<Pixels_new(created + 1)>>
            /\ created' = created + 1
            /\ calls' = <<"Pixels::new">>
            /\ status' = "running"
            /\ world' = World_new
       ELSE /\ calls' = <<"Pixels::new", "panic">>
            /\ status' = "panicked"
            /\ UNCHANGED <<pixels, created, world>>
    /\ control_flow' = "Poll"
    /\ UNCHANGED <<soft_keyboard, ime_calls, presented, exit_cause,
                   error_logged, reach, prev, drawVars>>

\* Event::Resumed: pixels = Some(Pixels::new(..).unwrap()); the match that
\* follows takes the `_ => ()` arm.
Resumed(new_ok) ==
    /\ Dispatching
    /\ Handled([kind |-> "Resumed"])
    /\ lifecycle' = "Resumed"
    /\ IF new_ok
       THEN /\ pixels' = <<Pixels_new(created + 1)>>
            /\ created' = created + 1
            /\ calls' = <<"Pixels::new">>
            /\ status' = "running"
       ELSE /\ calls' = <<"Pixels::new", "panic">>
            /\ status' = "panicked"
            /\ UNCHANGED <<pixels, created>>
    /\ control_flow' = "Poll"
    /\ UNCHANGED <<world, soft_keyboard, ime_calls, presented, exit_cause,
                   error_logged, reach, prev, drawVars>>

\* Variant: Suspended without `pixels = None`.
Suspended_KeepsSurface ==
    /\ Dispatching
    /\ Handled([kind |-> "Suspended"])
    /\ lifecycle' = "Suspended"
    /\ calls' = <<>>
    /\ control_flow' = "Poll"
    /\ UNCHANGED <<world, pixels, soft_keyboard, status, ime_calls, created,
                   presented, exit_cause, error_logged, reach, prev, drawVars>>

\* Event::Suspended: pixels = None; the `if let Some(pixels)` block is skipped.
Suspended ==
    /\ Dispatching
    /\ Handled([kind |-> "Suspended"])
    /\ lifecycle' = "Suspended"
    /\ pixels' = <<>>
    /\ calls' = <<>>
    /\ control_flow' = "Poll"
    /\ UNCHANGED <<world, soft_keyboard, status, ime_calls, created, presented,
                   exit_cause, error_logged, reach, prev, drawVars>>

\* Variant: the render error is logged but ControlFlow::Exit is not set.
RedrawRequested_IgnoresError(render_ok) ==
    /\ Dispatching
    /\ Handled([kind |-> "RedrawRequested", render_ok |-> render_ok])
    /\ IF pixels # <<>>
       THEN /\ pixels' = <<[pixels[1] EXCEPT !.frame = FrameOf(world)]>>
            /\ presented' = IF render_ok THEN pixels'[1].frame ELSE presented
            /\ calls' = <<"draw", "render">>
            /\ error_logged' = (error_logged \/ ~render_ok)
       ELSE /\ calls' = <<>>
            /\ UNCHANGED <<pixels, presented, error_logged>>
    /\ control_flow' = "Poll"
    /\ UNCHANGED <<world, soft_keyboard, status, ime_calls, created, lifecycle,
                   exit_cause, reach, prev, drawVars>>

\* Variant: `pixels.render().unwrap()`, a render error panics.
RedrawRequested_Unwraps(render_ok) ==
    /\ Dispatching
    /\ Handled([kind |-> "RedrawRequested", render_ok |-> render_ok])
    /\ IF pixels # <<>>
       THEN /\ pixels' = <<[pixels[1] EXCEPT !.frame = FrameOf(world)]>>
            /\ presented' = IF render_ok THEN pixels'[1].frame ELSE presented
            /\ calls' = IF render_ok THEN <<"draw", "render">>
                                     ELSE <<"draw", "render", "panic">>
            /\ status' = IF render_ok THEN "running" ELSE "panicked"
            /\ exit_cause' = IF render_ok THEN exit_cause ELSE "render_error"
       ELSE /\ calls' = <<>>
            /\ UNCHANGED <<pixels, presented, status, exit_cause>>
    /\ control_flow' = "Poll"
    /\ UNCHANGED <<world, soft_keyboard, ime_calls, created, lifecycle,
                   error_logged, reach, prev, drawVars>>

\* Variant: pixels.render() before world.draw(..): the frame presented is
\* the one the surface held before this event.
RedrawRequested_RenderFirst(render_ok) ==
    /\ Dispatching
    /\ Handled([kind |-> "RedrawRequested", render_ok |-> render_ok])
    /\ IF pixels # <<>>
       THEN /\ pixels' = <<[pixels[1] EXCEPT !.frame = FrameOf(world)]>>
            /\ presented' = IF render_ok THEN pixels[1].frame ELSE presented
            /\ calls' = <<"render", "draw">>
            /\ error_logged' = (error_logged \/ ~render_ok)
            /\ control_flow' = IF render_ok THEN "Poll" ELSE "Exit"
            /\ exit_cause' = IF render_ok THEN exit_cause ELSE "render_error"
       ELSE /\ calls' = <<>>
            /\ control_flow' = "Poll"
            /\ UNCHANGED <<pixels, presented, error_logged, exit_cause>>
    /\ UNCHANGED <<world, soft_keyboard, status, ime_calls, created, lifecycle,
                   reach, prev, drawVars>>

\* Event::RedrawRequested: world.draw(pixels.get_frame()), then
\* pixels.render(); an Err is logged, sets ControlFlow::Exit and returns.
RedrawRequested(render_ok) ==
    /\ Dispatching
    /\ Handled([kind |-> "RedrawRequested", render_ok |-> render_ok])
    /\ IF pixels # <<>>
       THEN /\ pixels' = <<[pixels[1] EXCEPT !.frame = FrameOf(world)]>>
            /\ presented' = IF render_ok THEN pixels'[1].frame ELSE presented
            /\ calls' = <<"draw", "render">>
            /\ error_logged' = (error_logged \/ ~render_ok)
            /\ control_flow' = IF render_ok THEN "Poll" ELSE "Exit"
            /\ exit_cause' = IF render_ok THEN exit_cause ELSE "render_error"
       ELSE /\ calls' = <<>>
            /\ control_flow' = "Poll"
            /\ UNCHANGED <<pixels, presented, error_logged, exit_cause>>
    /\ UNCHANGED <<world, soft_keyboard, status, ime_calls, created, lifecycle,
                   reach, prev, drawVars>>

\* Variant: the idle tick handled outside `if let Some(pixels)`.
MainEventsCleared_NoSurfaceCheck ==
    /\ Dispatching
    /\ Handled([kind |-> "MainEventsCleared"])
    /\ world' = Update(world)
    /\ calls' = <<"update", "request_redraw">>
    /\ control_flow' = "Poll"
    /\ UNCHANGED <<pixels, soft_keyboard, status, ime_calls, created, presented,
                   lifecycle, exit_cause, error_logged, reach, prev, drawVars>>

\* Event::MainEventsCleared: world.update(); window.request_redraw().
MainEventsCleared ==
    /\ Dispatching
    /\ Handled([kind |-> "MainEventsCleared"])
    /\ IF pixels # <<>>
       THEN /\ world' = Update(world)
            /\ calls' = <<"update", "request_redraw">>
       ELSE /\ calls' = <<>>
            /\ UNCHANGED world
    /\ control_flow' = "Poll"
    /\ UNCHANGED <<pixels, soft_keyboard, status, ime_calls, created, presented,
                   lifecycle, exit_cause, error_logged, reach, prev, drawVars>>

\* Variant: the close request does not set ControlFlow::Exit.
CloseRequested_NoExit ==
    /\ Dispatching
    /\ Handled([kind |-> "CloseRequested"])
    /\ calls' = <<>>
    /\ control_flow' = "Poll"
    /\ UNCHANGED <<world, pixels, soft_keyboard, status, ime_calls, created,
                   presented, lifecycle, exit_cause, error_logged, reach, prev, drawVars>>

\* WindowEvent::CloseRequested: *control_flow = ControlFlow::Exit, inside the
\* `if let Some(pixels)` block.
CloseRequested ==
    /\ Dispatching
    /\ Handled([kind |-> "CloseRequested"])
    /\ calls' = <<>>
    /\ IF pixels # <<>>
       THEN /\ control_flow' = "Exit"
            /\ exit_cause' = "close"
       ELSE /\ control_flow' = "Poll"
            /\ UNCHANGED exit_cause
    /\ UNCHANGED <<world, pixels, soft_keyboard, status, ime_calls, created,
                   presented, lifecycle, error_logged, reach, prev, drawVars>>

\* Variant: the flag follows the platform's answer: it is negated only when
\* show_soft_input returned true.
Touch_ToggleOnSuccess(phase, result) ==
    /\ Dispatching
    /\ Handled([kind |-> "Touch", phase |-> phase])
    /\ IF pixels # <<>> /\ phase = "Started"
       THEN /\ soft_keyboard' = IF result = "true" THEN ~soft_keyboard ELSE soft_keyboard
            /\ ime_calls' = Append(ime_calls, ~soft_keyboard)
            /\ calls' = IF result = "panic"
                        THEN <<"show_soft_input", "panic">>
                        ELSE <<"show_soft_input">>
            /\ status' = IF result = "panic" THEN "panicked" ELSE "running"
       ELSE /\ calls' = <<>>
            /\ UNCHANGED <<soft_keyboard, ime_calls, status>>
    /\ control_flow' = "Poll"
    /\ UNCHANGED <<world, pixels, created, presented, lifecycle, exit_cause,
                   error_logged, reach, prev, drawVars>>

\* WindowEvent::Touch(touch): on TouchPhase::Started the flag is negated and
\* show_soft_input(soft_keyboard) is called; its bool result is dropped.
Touch(phase, result) ==
    /\ Dispatching
    /\ Handled([kind |-> "Touch", phase |-> phase])
    /\ IF pixels # <<>> /\ phase = "Started"
       THEN /\ soft_keyboard' = ~soft_keyboard
            /\ ime_calls' = Append(ime_calls, soft_keyboard')
            /\ calls' = IF result = "panic"
                        THEN <<"show_soft_input", "panic">>
                        ELSE <<"show_soft_input">>
            /\ status' = IF result = "panic" THEN "panicked" ELSE "running"
       ELSE /\ calls' = <<>>
            /\ UNCHANGED <<soft_keyboard, ime_calls, status>>
    /\ control_flow' = "Poll"
    /\ UNCHANGED <<world, pixels, created, presented, lifecycle, exit_cause,
                   error_logged, reach, prev, drawVars>>

\* WindowEvent::KeyboardInput: log::info!("input: ..") only.
KeyboardInput ==
    /\ Dispatching
    /\ Handled([kind |-> "KeyboardInput"])
    /\ calls' = <<>>
    /\ control_flow' = "Poll"
    /\ UNCHANGED <<world, pixels, soft_keyboard, status, ime_calls, created,
                   presented, lifecycle, exit_cause, error_logged, reach, prev, drawVars>>

\* Any other event (NewEvents, RedrawEventsCleared, ..): the `_ => ()` arm.
OtherEvent ==
    /\ Dispatching
    /\ Handled([kind |-> "Other"])
    /\ calls' = <<>>
    /\ control_flow' = "Poll"
    /\ UNCHANGED <<world, pixels, soft_keyboard, status, ime_calls, created,
                   presented, lifecycle, exit_cause, error_logged, reach, prev, drawVars>>

\* After the handler left ControlFlow::Exit the loop calls it once more with
\* Event::LoopDestroyed (the `_ => ()` arm; Exit is sticky, set_poll does not
\* undo it) and the process ends; event_loop.run never returns to run().
LoopDestroyed ==
    /\ status = "running"
    /\ control_flow = "Exit"
    /\ event' = [kind |-> "LoopDestroyed"]
    /\ calls' = <<>>
    /\ status' = "exited"
    /\ UNCHANGED <<world, pixels, soft_keyboard, control_flow, ime_calls, created,
                   presented, lifecycle, exit_cause, error_logged, events,
                   reach, prev, drawVars>>

Init ==
    /\ world = World_new
    /\ reach = Reach0(World_new)
    /\ prev = <<>>
    /\ LoopStart
    /\ DrawIdle

Next ==
    \/ \E new_ok \in BOOLEAN : Resumed(new_ok)
    \/ Suspended
    \/ \E render_ok \in BOOLEAN : RedrawRequested(render_ok)
    \/ MainEventsCleared
    \/ CloseRequested
    \/ \E phase \in TouchPhases, result \in ShowResults : Touch(phase, result)
    \/ KeyboardInput
    \/ OtherEvent
    \/ LoopDestroyed

Spec == Init /\ [][Next]_vars


(* ------------- SpecWorld: World::new() followed by updates ------------- *)

InitWorld ==
    /\ world = World_new
    /\ reach = Reach0(World_new)
    /\ prev = <<>>
    /\ LoopIdle
    /\ DrawIdle

\* world.update() as the idle tick calls it (lib.rs:147).
Tick ==
    /\ world' = Update(world)
    /\ reach' = ReachAfter(reach, world')
    /\ UNCHANGED <<prev, loopVars, drawVars>>

NextWorld == Tick

SpecWorld == InitWorld /\ [][NextWorld]_vars

\* The same with idle ticks that keep occurring: every handler call begins
\* with control_flow.set_poll() (lib.rs:114), so while the surface is present
\* the loop goes on delivering MainEventsCleared.
SpecWorldLive == InitWorld /\ [][NextWorld]_vars /\ WF_vars(Tick)

(* ------------ SpecUpdate: one update of any in-range World ------------ *)

MaxSpeed == 1

Speeds == (-MaxSpeed) .. MaxSpeed

InRangeWorlds ==
    [box_x : 0 .. (WIDTH - 1), box_y : 0 .. (HEIGHT - 1),
     velocity_x : Speeds, velocity_y : Speeds]

InitUpdate ==
    /\ world \in InRangeWorlds
    /\ reach = Reach0(world)
    /\ prev = <<>>
    /\ LoopIdle
    /\ DrawIdle

UpdateOnce ==
    /\ prev = <<>>
    /\ prev' = <<world>>
    /\ world' = Update(world)
    /\ reach' = ReachAfter(reach, world')
    /\ UNCHANGED <<loopVars, drawVars>>

NextUpdate == UpdateOnce

SpecUpdate == InitUpdate /\ [][NextUpdate]_vars

(* ------------------------------ World::draw ---------------------------- *)

BOX_RGBA == <<94, 72, 232, 255>>            \* [0x5e, 0x48, 0xe8, 0xff]

BACKGROUND_RGBA == <<72, 178, 232, 255>>    \* [0x48, 0xb2, 0xe8, 0xff]

\* `(i % WIDTH as usize) as i16` and `(i / WIDTH as usize) as i16`.
PixelX(i) == AsI16(i % WIDTH)

PixelY(i) == AsI16(i \div WIDTH)

\* Variant: `<=` for `<` at the far edges of the box.
InsideTheBox_Inclusive(w, x, y) ==
    /\ x >= w.box_x
    /\ x <= Wrap16(w.box_x + BOX_SIZE)
    /\ y >= w.box_y
    /\ y <= Wrap16(w.box_y + BOX_SIZE)

\* inside_the_box, with the sums as a build without overflow checks (or one
\* in which they do not overflow) computes them.
InsideTheBox(w, x, y) ==
    /\ x >= w.box_x
    /\ x < Wrap16(w.box_x + BOX_SIZE)
    /\ y >= w.box_y
    /\ y < Wrap16(w.box_y + BOX_SIZE)

\* Variant: both sums computed before the comparisons (no short-circuit).
InsideOverflows_Eager(w, x, y) ==
    \/ w.box_x + BOX_SIZE > I16_MAX
    \/ w.box_y + BOX_SIZE > I16_MAX

\* Whether computing inside_the_box evaluates a sum that overflows i16: the
\* `&&` chain evaluates `box_x + BOX_SIZE` only after `x >= box_x` held, and
\* `box_y + BOX_SIZE` only after the three tests before it held.
InsideOverflows(w, x, y) ==
    \/ x >= w.box_x /\ w.box_x + BOX_SIZE > I16_MAX
    \/ /\ x >= w.box_x
       /\ x < Wrap16(w.box_x + BOX_SIZE)
       /\ y >= w.box_y
       /\ w.box_y + BOX_SIZE > I16_MAX

\* The buffer is kept as scanlines: chunk i of the flat RGBA8 buffer (bytes
\* 4i .. 4i+3) is f[i \div WIDTH][i % WIDTH], the layout Pixels::new(WIDTH,
\* HEIGHT, ..) gives the frame.
Scanlines(f) == DOMAIN f

Columns == 0 .. (WIDTH - 1)

\* frame.chunks_exact_mut(4).enumerate(): the pixel indices 0, 1, ..
Chunks(f) == 0 .. (Cardinality(Scanlines(f)) * WIDTH - 1)

\* The index of the first pixel whose test panics in a build with overflow
\* checks; the number of pixels if there is none.
PanicsAt(w, f, checks) ==
    LET bad == IF checks
               THEN {i \in Chunks(f) : InsideOverflows(w, PixelX(i), PixelY(i))}
               ELSE {}
    IN  IF bad = {} THEN Cardinality(Scanlines(f)) * WIDTH
        ELSE CHOOSE i \in bad : \A j \in bad : i <= j

\* The colour the loop body copies into chunk i.
Rgba(w, i) ==
    IF InsideTheBox(w, PixelX(i), PixelY(i)) THEN BOX_RGBA ELSE BACKGROUND_RGBA

\* World::draw: every 4-byte chunk, in order, gets one of the two colours;
\* a panic leaves the chunks from that pixel on as they were.
Draw(w, f, checks) ==
    LET stop == PanicsAt(w, f, checks)
    IN  [r \in Scanlines(f) |->
            [c \in Columns |->
                IF r * WIDTH + c >= stop THEN f[r][c] ELSE Rgba(w, r * WIDTH + c)]]

(* --------------- SpecDraw: World::draw of a chosen World --------------- *)

FrameScanlines == 0 .. (HEIGHT - 1)

\* What the buffer may hold before the call: the zeroed buffer of a fresh
\* surface, and a stale buffer whose pixels all have the box colour.
InitialFrames ==
    {[r \in FrameScanlines |-> [c \in Columns |-> <<0, 0, 0, 0>>]],
     [r \in FrameScanlines |-> [c \in Columns |-> BOX_RGBA]]}

\* Box positions: inside the frame, across each edge, outside it, and at the
\* ends of the i16 range.
DrawXs == {I16_MIN, 0 - BOX_SIZE, -1, 24, WIDTH - BOX_SIZE + 1, WIDTH, I16_MAX}

DrawYs == {-63, 16, HEIGHT - 1, I16_MAX - BOX_SIZE + 1}

DrawWorlds ==
    [box_x : DrawXs, box_y : DrawYs, velocity_x : {1}, velocity_y : {1}]

InitDraw ==
    /\ world \in DrawWorlds
    /\ reach = Reach0(world)
    /\ prev = <<>>
    /\ LoopIdle
    /\ frame \in InitialFrames
    /\ drawn = 0
    /\ overflow_checks \in BOOLEAN

\* world.draw(frame) on the stand-alone buffer.
DrawOnce ==
    /\ drawn = 0
    /\ status = "running"
    /\ frame' = Draw(world, frame, overflow_checks)
    /\ drawn' = drawn + 1
    /\ status' = IF PanicsAt(world, frame, overflow_checks) \in Chunks(frame)
                 THEN "panicked"
                 ELSE "running"
    /\ UNCHANGED <<worldVars, pixels, soft_keyboard, control_flow, event, calls,
                   ime_calls, created, presented, lifecycle, exit_cause,
                   error_logged, events, overflow_checks>>

\* Variant: a draw that also advances the World before painting it.
DrawAgain_MovesBox ==
    /\ drawn = 1
    /\ status = "running"
    /\ world' = Update(world)
    /\ frame' = Draw(world', frame, overflow_checks)
    /\ drawn' = drawn + 1
    /\ UNCHANGED <<reach, prev, loopVars, overflow_checks>>

\* A second world.draw(frame) on the buffer the first call left (draw takes
\* &self: the World is not written).
DrawAgain ==
    /\ drawn = 1
    /\ status = "running"
    /\ frame' = Draw(world, frame, overflow_checks)
    /\ drawn' = drawn + 1
    /\ status' = IF PanicsAt(world, frame, overflow_checks) \in Chunks(frame)
                 THEN "panicked"
                 ELSE "running"
    /\ UNCHANGED <<worldVars, pixels, soft_keyboard, control_flow, event, calls,
                   ime_calls, created, presented, lifecycle, exit_cause,
                   error_logged, events, overflow_checks>>

NextDraw == DrawOnce \/ DrawAgain

SpecDraw == InitDraw /\ [][NextDraw]_vars

(* ------------------------------ the claims ----------------------------- *)

\* C1: from World::new(), after any number of updates the box position is
\* within the logical bounds: 0 <= box_x < WIDTH and 0 <= box_y < HEIGHT.
C1_BoxWithinLogicalBounds ==
    /\ 0 <= world.box_x /\ world.box_x < WIDTH
    /\ 0 <= world.box_y /\ world.box_y < HEIGHT

\* The box has been reflected at the right wall and is on its way back.
C1_Witness ==
    /\ world.velocity_x = -1
    /\ world.box_x + BOX_SIZE = WIDTH
    /\ reach.max_x + BOX_SIZE > WIDTH

\* C7: World::update equals the reference step on every in-range World, per
\* axis: the velocity is negated iff pos <= 0 or pos + 64 > limit (on the
\* position before the move), then the position advances by that velocity;
\* (24,16,1,1) becomes (25,17,1,1).
RefFlip(pos, limit) == pos <= 0 \/ pos + 64 > limit

RefStep(w) ==
    [box_x      |-> w.box_x + (IF RefFlip(w.box_x, 320)
                               THEN 0 - w.velocity_x ELSE w.velocity_x),
     box_y      |-> w.box_y + (IF RefFlip(w.box_y, 240)
                               THEN 0 - w.velocity_y ELSE w.velocity_y),
     velocity_x |-> IF RefFlip(w.box_x, 320) THEN 0 - w.velocity_x ELSE w.velocity_x,
     velocity_y |-> IF RefFlip(w.box_y, 240) THEN 0 - w.velocity_y ELSE w.velocity_y]

C7_UpdateIsReferenceStep ==
    prev # <<>> =>
        /\ world = RefStep(prev[1])
        /\ (~RefFlip(prev[1].box_x, 320) /\ ~RefFlip(prev[1].box_y, 240)) =>
               /\ world.velocity_x = prev[1].velocity_x
               /\ world.velocity_y = prev[1].velocity_y
               /\ world.box_x = prev[1].box_x + prev[1].velocity_x
               /\ world.box_y = prev[1].box_y + prev[1].velocity_y
        /\ prev[1] = World_new =>
               world = [box_x |-> 25, box_y |-> 17, velocity_x |-> 1, velocity_y |-> 1]

\* The scenario of the claim: one update of World::new().
C7_Witness ==
    /\ prev = <<World_new>>
    /\ world.box_x = 25 /\ world.box_y = 17

\* C8: from World::new() the positions reached are exactly box_x in 0..257
\* and box_y in 0..177: the box overshoots WIDTH - BOX_SIZE (HEIGHT -
\* BOX_SIZE) by exactly one pixel and never goes below 0.  (Positions change
\* by one pixel per update, so the extremes below give every value between.)
C8_ReachedPositionsExact ==
    /\ reach.min_x >= 0 /\ reach.max_x <= 257
    /\ reach.min_y >= 0 /\ reach.max_y <= 177
    /\ world.velocity_x \in {-1, 1} /\ world.velocity_y \in {-1, 1}
    /\ world.velocity_x = -1 => reach.max_x = 257
    /\ world.velocity_y = -1 => reach.max_y = 177
    /\ (world.velocity_x = 1 /\ world.box_x < reach.max_x /\ reach.max_x = 257)
           => reach.min_x = 0
    /\ (world.velocity_y = 1 /\ world.box_y < reach.max_y /\ reach.max_y = 177)
           => reach.min_y = 0

\* The overshoot itself: the box one pixel past the tight bound on x, every
\* extreme position already visited.
C8_Witness ==
    /\ world.box_x = (WIDTH - BOX_SIZE) + 1
    /\ reach = [min_x |-> 0, max_x |-> 257, min_y |-> 0, max_y |-> 177]

\* C9: in every state reached from World::new(), a box at or past the
\* left/top boundary next moves in the positive direction on that axis, and
\* a box past the right/bottom boundary next moves in the negative direction.
C9_TrendsInward ==
    [][/\ world.box_x <= 0 => world'.box_x > world.box_x
       /\ world.box_y <= 0 => world'.box_y > world.box_y
       /\ world.box_x + BOX_SIZE > WIDTH => world'.box_x < world.box_x
       /\ world.box_y + BOX_SIZE > HEIGHT => world'.box_y < world.box_y]_vars

\* The box has just left the top wall, having been at the bottom wall before.
C9_Witness ==
    /\ world.box_y = 1 /\ world.velocity_y = 1
    /\ reach.min_y = 0 /\ reach.max_y + BOX_SIZE > HEIGHT

\* A step in which the handler ran for an event of the given kind.
Handles(kind) == events' = events + 1 /\ event'.kind = kind

\* C2 as stated: after a CloseRequested is handled control flow is Exit, in
\* whichever lifecycle state the request arrives.
C2_CloseAlwaysExits ==
    event.kind = "CloseRequested" => control_flow = "Exit"

\* C2 (amended): a CloseRequested handled while the surface is present
\* leaves control flow Exit and the process then ends; one handled while the
\* surface is absent is ignored and control flow stays Poll.
C2_CloseExitsIffSurface ==
    /\ event.kind = "CloseRequested" =>
           IF pixels # <<>>
           THEN control_flow = "Exit" /\ exit_cause = "close"
           ELSE control_flow = "Poll" /\ exit_cause = "none"
    /\ (control_flow = "Exit" /\ status = "running") => ENABLED LoopDestroyed
    /\ status = "exited" => control_flow = "Exit"

\* A close request arrived with the surface present and ended the process.
C2_Witness ==
    /\ exit_cause = "close"
    /\ status = "exited"
    /\ pixels # <<>>

\* C3: when pixels.render() fails in a redraw request the handler leaves
\* control flow Exit in that same event after one draw and one render (no
\* retry), and afterwards the World is not updated and nothing is drawn.
C3_RenderFailureIsFatal ==
    [][/\ (Handles("RedrawRequested") /\ pixels # <<>> /\ ~event'.render_ok) =>
              /\ control_flow' = "Exit"
              /\ calls' = <<"draw", "render">>
              /\ error_logged'
       /\ error_logged =>
              /\ world' = world
              /\ calls' = <<>>
              /\ events' = events
              /\ presented' = presented]_vars

\* A render failed and the process ended without a frame ever presented.
C3_Witness ==
    /\ error_logged
    /\ status = "exited"
    /\ presented = <<>>

\* C4 as stated: a close request ends the process normally, a render
\* failure ends it abnormally, as an error propagated out of main().
C4_RenderFailureExitsAbnormally ==
    /\ (status # "running" /\ exit_cause = "close") => status = "exited"
    /\ (status # "running" /\ exit_cause = "render_error") => status = "panicked"

\* C4 (amended): both ways end the loop alike: the handler leaves
\* ControlFlow::Exit and the process ends normally from the event loop, which
\* never returns an error to run() or main(); a render failure differs only
\* in the error it logs.
C4_BothExitsNormal ==
    /\ exit_cause = "none" <=> control_flow = "Poll"
    /\ exit_cause = "render_error" <=> error_logged
    /\ (status # "running" /\ exit_cause # "none") => status = "exited"
    /\ status = "exited" => exit_cause \in {"close", "render_error"}

\* The process ended normally after a render failure that was logged.
C4_Witness ==
    /\ status = "exited"
    /\ exit_cause = "render_error"
    /\ error_logged

\* C5: the surface is absent at startup; every Resumed event leaves exactly
\* one, freshly created surface (replacing any existing one) and every
\* Suspended event leaves none; so while the process lives the surface is
\* present iff the most recent lifecycle event was Resumed.
C5_SurfaceFollowsLifecycle ==
    /\ [](status # "panicked" =>
             /\ Len(pixels) <= 1
             /\ pixels # <<>> <=> lifecycle = "Resumed"
             /\ events = 0 => pixels = <<>>)
    /\ [][/\ (Handles("Resumed") /\ status' # "panicked") =>
                 /\ Len(pixels') = 1
                 /\ pixels'[1].frame = <<>>
                 /\ pixels'[1].id = created'
                 /\ created' > created
                 /\ pixels # <<>> => pixels'[1].id > pixels[1].id
          /\ Handles("Suspended") => pixels' = <<>>
          /\ (events' = events + 1 /\ event'.kind \notin {"Resumed", "Suspended"}) =>
                 /\ Len(pixels') = Len(pixels)
                 /\ pixels # <<>> => pixels'[1].id = pixels[1].id
                 /\ created' = created]_vars

\* A second Resumed arrived while a surface was present and replaced it.
C5_Witness ==
    /\ event.kind = "Resumed"
    /\ lifecycle = "Resumed"
    /\ pixels # <<>>
    /\ pixels[1].id = 2
    /\ status = "running"

\* C6: an idle tick (MainEventsCleared) handled while the surface is present
\* performs exactly one World::update and then requests exactly one redraw;
\* one handled while the surface is absent does neither.
C6_IdleTickUpdatesOnce ==
    [][Handles("MainEventsCleared") =>
           IF pixels # <<>>
           THEN /\ world' = RefStep(world)
                /\ calls' = <<"update", "request_redraw">>
           ELSE /\ world' = world
                /\ calls' = <<>>]_vars

\* Two idle ticks with the surface present moved the box twice.
C6_Witness ==
    /\ event.kind = "MainEventsCleared"
    /\ calls = <<"update", "request_redraw">>
    /\ world.box_x = 26 /\ world.box_y = 18

\* C10: World::draw overwrites every pixel of a WIDTH x HEIGHT RGBA8 buffer:
\* pixel i, with x = i mod WIDTH and y = i div WIDTH, gets the box colour
\* [0x5e,0x48,0xe8,0xff] iff box_x <= x < box_x + BOX_SIZE and
\* box_y <= y < box_y + BOX_SIZE, and the background colour
\* [0x48,0xb2,0xe8,0xff] otherwise, whatever it held before.
C10_DrawOverwritesEveryPixel ==
    drawn > 0 =>
        frame = [r \in 0 .. 239 |-> [c \in 0 .. 319 |->
                    LET i == r * 320 + c
                        x == i % 320
                        y == i \div 320
                    IN  IF /\ world.box_x <= x /\ x < world.box_x + 64
                           /\ world.box_y <= y /\ y < world.box_y + 64
                        THEN <<94, 72, 232, 255>>
                        ELSE <<72, 178, 232, 255>>]]

\* The box of World::new() drawn over a stale buffer: its corners have the
\* box colour and the pixels just outside them the background colour.
C10_Witness ==
    /\ drawn > 0
    /\ world.box_x = 24 /\ world.box_y = 16
    /\ frame[16][24] = <<94, 72, 232, 255>>
    /\ frame[79][87] = <<94, 72, 232, 255>>
    /\ frame[16][23] = <<72, 178, 232, 255>>
    /\ frame[80][87] = <<72, 178, 232, 255>>
    /\ frame[0][0] = <<72, 178, 232, 255>>

\* C11: World::draw is idempotent: a second draw with the World unchanged
\* leaves the buffer exactly as the first draw left it, whatever the buffer
\* held before the first call, and no draw changes the World.
C11_DrawIdempotent ==
    [][drawn' # drawn =>
           /\ world' = world
           /\ drawn >= 1 => frame' = frame
           /\ drawn = 0 =>
                  frame' = Draw(world, [r \in 0 .. 239 |-> [c \in 0 .. 319 |-> <<0, 0, 0, 0>>]],
                                overflow_checks)]_vars

\* The box of World::new() drawn twice over a stale buffer.
C11_Witness ==
    /\ drawn = 2
    /\ world.box_x = 24 /\ world.box_y = 16
    /\ frame[16][24] = <<94, 72, 232, 255>>
    /\ frame[15][24] = <<72, 178, 232, 255>>

\* Whether the box region [box_x, box_x + 64) x [box_y, box_y + 64) misses
\* the visible frame [0, 320) x [0, 240).
OutsideFrame(w) ==
    \/ w.box_x + 64 <= 0
    \/ w.box_x >= 320
    \/ w.box_y + 64 <= 0
    \/ w.box_y >= 240

\* C12: for every World whose box region does not intersect the visible
\* frame, box_x and box_y near the i16 limits included, World::draw
\* completes (no overflow panic in any build) and leaves every pixel with
\* the background colour.
C12_OutsideBoxDrawsBackground ==
    (drawn > 0 /\ OutsideFrame(world)) =>
        /\ status = "running"
        /\ frame = [r \in 0 .. 239 |-> [c \in 0 .. 319 |-> <<72, 178, 232, 255>>]]

\* A box whose sums box_x + 64 and box_y + 64 both exceed the i16 range,
\* drawn by a build with overflow checks.
C12_Witness ==
    /\ drawn > 0
    /\ overflow_checks
    /\ world.box_x = 32767 /\ world.box_y = 32704
    /\ status = "running"
    /\ frame[0][0] = <<72, 178, 232, 255>>
    /\ frame[239][319] = <<72, 178, 232, 255>>

\* C13: the software-keyboard flag starts false; a touch with phase Started
\* handled while the surface is present negates it exactly once and calls
\* show_soft_input with the new value, whatever that call returns, so the
\* calls alternate show, hide, show, ..; touches in other phases, touches
\* while the surface is absent and all other events leave the flag alone.
C13_TouchTogglesKeyboard ==
    /\ [](/\ events = 0 => ~soft_keyboard
          /\ \A k \in 1 .. Len(ime_calls) : ime_calls[k] = (k % 2 = 1)
          /\ soft_keyboard = (Len(ime_calls) % 2 = 1))
    /\ [][IF Handles("Touch") /\ event'.phase = "Started" /\ pixels # <<>>
          THEN /\ soft_keyboard' = ~soft_keyboard
               /\ ime_calls' = Append(ime_calls, ~soft_keyboard)
               /\ calls'[1] = "show_soft_input"
          ELSE /\ soft_keyboard' = soft_keyboard
               /\ ime_calls' = ime_calls
               /\ calls' # <<"show_soft_input">>]_vars

\* Three touches: the keyboard was shown, hidden and shown again.
C13_Witness ==
    /\ ime_calls = <<TRUE, FALSE, TRUE>>
    /\ soft_keyboard
    /\ event.kind = "Touch"
    /\ status = "running"

\* C14: the World is created once, as World::new(), and only the update of
\* an idle tick changes it: Resumed, Suspended, redraw request, touch,
\* keyboard input and close request events leave it as it is, so the box
\* goes on from where it was after a suspend/resume cycle.
C14_OnlyIdleTickChangesWorld ==
    /\ [](events = 0 => world = World_new)
    /\ [][/\ world' # world => (Handles("MainEventsCleared") /\ pixels # <<>>)
          /\ (events' = events + 1 /\ event'.kind # "MainEventsCleared") =>
                 world' = world]_vars

\* The box had moved, the surface was dropped and created again, and the
\* box is where it was.
C14_Witness ==
    /\ event.kind = "Resumed"
    /\ created = 2
    /\ status = "running"
    /\ world = [box_x |-> 25, box_y |-> 17, velocity_x |-> 1, velocity_y |-> 1]

\* Whether the handler made the call c in the event it has just handled.
Called(s, c) == \E k \in 1 .. Len(s) : s[k] = c

\* C15: World::draw and pixels.render() are called only in a redraw request
\* handled while a surface is present, draw first: what render presents is
\* the frame of that surface as the draw of the current World left it; a
\* redraw request handled while the surface is absent draws and presents
\* nothing.
C15_DrawThenPresent ==
    [][events' = events + 1 =>
           /\ (Called(calls', "draw") \/ Called(calls', "render")
                   \/ presented' # presented) =>
                  /\ Handles("RedrawRequested")
                  /\ pixels # <<>>
                  /\ calls' = <<"draw", "render">>
                  /\ world' = world
                  /\ pixels'[1].id = pixels[1].id
                  /\ pixels'[1].frame = <<world>>
                  /\ presented' # presented => presented' = <<world>>
           /\ (Handles("RedrawRequested") /\ pixels # <<>> /\ event'.render_ok) =>
                  presented' = <<world>>
           /\ (Handles("RedrawRequested") /\ pixels = <<>>) =>
                  /\ calls' = <<>>
                  /\ presented' = presented
                  /\ pixels' = <<>>]_vars

\* The box moved once and that frame was drawn and presented.
C15_Witness ==
    /\ event.kind = "RedrawRequested"
    /\ calls = <<"draw", "render">>
    /\ world.box_x = 25
    /\ presented = <<world>>

\* C16: with the surface present and idle ticks that keep occurring, from
\* World::new() the box never gets stuck at a wall: both velocities always
\* have magnitude 1, each of them is positive infinitely often and negative
\* infinitely often, and box_x is 0 and 257 (box_y 0 and 177) infinitely
\* often.
C16_BoxNeverStuck ==
    /\ [](world.velocity_x \in {-1, 1} /\ world.velocity_y \in {-1, 1})
    /\ []<>(world.velocity_x = 1) /\ []<>(world.velocity_x = -1)
    /\ []<>(world.velocity_y = 1) /\ []<>(world.velocity_y = -1)
    /\ []<>(world.box_x = 0) /\ []<>(world.box_x = 257)
    /\ []<>(world.box_y = 0) /\ []<>(world.box_y = 177)

\* The box is back at the left wall after it has been at all four walls.
C16_Witness ==
    /\ world.box_x = 0 /\ world.velocity_x = -1
    /\ reach = [min_x |-> 0, max_x |-> 257, min_y |-> 0, max_y |-> 177]

=============================================================================
